---- MODULE Spec2Model ----
(***************************************************************************)
(* A model of mxdict (src/mxdict.py) and of the value codec of exdict      *)
(* (src/exdict.py): the parser __to_dict, the serializer __to_tree, the    *)
(* value codec __eval / str(), and the dictionary helpers update, append,  *)
(* data_keys, data_items and one_liner.                                    *)
(*                                                                         *)
(* Representation.                                                         *)
(*  - A Python str is a sequence of one-character strings, so that         *)
(*    count('.'), startswith('Gc'), int(), float() and str() are computed  *)
(*    character by character.                                              *)
(*  - A Python value is a record [t |-> type, v |-> payload].              *)
(*  - A dict is the sequence of its entries [k |-> key, v |-> value] in    *)
(*    insertion order (Python dicts keep insertion order).                 *)
(*  - An ElementTree element is [tag, attrib, kids]; attrib is a function  *)
(*    from attribute names to texts.  xml.etree itself (text <-> element)  *)
(*    is the library: an input text is given with the element it denotes,  *)
(*    or as not well formed.                                               *)
(***************************************************************************)
EXTENDS Integers, Sequences, FiniteSets, TLC

VARIABLES
    self,       \* the mxdict's own entries (it is a dict subclass)
    mxml,       \* self.__mxml: the stored text or path
    cast,       \* self.__cast
    useid,      \* self.__useid
    call,       \* the last call made on the object: [op, args]
    ret,        \* what that call returned or raised
    reported,   \* what that call printed
    origin,     \* history: the element the present entries were parsed from
    log,        \* history: the insertions the last parse made, in order
    codec       \* the value codec exercised on its own (SpecEval)

vars == <<self, mxml, cast, useid, call, ret, reported, origin, log, codec>>

---------------------------------------------------------------------------
(* Bounds of the model *)

\* most elements in a generated document
MaxNodes == 3
\* most entries a dict may hold for update/append to add one more
MaxLen == 4

---------------------------------------------------------------------------
(* Texts *)

T_meta     == <<"m","e","t","a">>
T_template == <<"t","e","m","p","l","a","t","e">>
T_name     == <<"n","a","m","e">>
T_true     == <<"t","r","u","e">>
T_false    == <<"f","a","l","s","e">>
T_True     == <<"T","r","u","e">>
T_False    == <<"F","a","l","s","e">>
T_None     == <<"N","o","n","e">>
T_hello    == <<"h","e","l","l","o">>
T_Gc       == <<"G","c">>
T_Tk       == <<"T","k">>
T_faux     == <<"f","a","u","x","_","c","o","n","t","a","i","n","e","r">>
T_container == <<"c","o","n","t","a","i","n","e","r">>

DigitChars == <<"0","1","2","3","4","5","6","7","8","9">>

IsDigit(c) == \E i \in 1..10 : DigitChars[i] = c

DigitVal(c) == CHOOSE i \in 0..9 : DigitChars[i + 1] = c

\* str.count(c) for a one-character c
Count(s, c) == Cardinality({i \in 1..Len(s) : s[i] = c})

\* str.startswith(p)
StartsWith(s, p) == Len(s) >= Len(p) /\ SubSeq(s, 1, Len(p)) = p

\* p in s, for two strs
Contains(s, p) ==
    \E i \in 0..(Len(s) - Len(p)) : SubSeq(s, i + 1, i + Len(p)) = p

AllDigits(s) == s # <<>> /\ \A i \in 1..Len(s) : IsDigit(s[i])

RECURSIVE DigitsVal(_)
DigitsVal(s) ==
    IF s = <<>> THEN 0
    ELSE DigitsVal(SubSeq(s, 1, Len(s) - 1)) * 10 + DigitVal(s[Len(s)])

RECURSIVE NatText(_)
NatText(n) ==
    IF n < 10 THEN <<DigitChars[n + 1]>>
    ELSE NatText(n \div 10) \o <<DigitChars[(n % 10) + 1]>>

RECURSIVE Pow10(_)
Pow10(e) == IF e = 0 THEN 1 ELSE 10 * Pow10(e - 1)

RECURSIVE ZeroPad(_, _)
ZeroPad(s, w) == IF Len(s) >= w THEN s ELSE ZeroPad(<<"0">> \o s, w)

Abs(n) == IF n < 0 THEN -n ELSE n

---------------------------------------------------------------------------
(* Python values *)

PyStr(s)   == [t |-> "str",   v |-> s]
PyInt(n)   == [t |-> "int",   v |-> n]
\* the float m / 10^e, kept with the fewest decimals e >= 1
PyFloat(m, e) == [t |-> "float", v |-> <<m, e>>]
PyBool(b)  == [t |-> "bool",  v |-> b]
PyNone     == [t |-> "none",  v |-> 0]
\* the attrib dict of an element (a plain dict of strs)
PyAttrib(a) == [t |-> "attrib", v |-> a]
\* an mxdict, by its entries
PyMx(d)    == [t |-> "mxdict", v |-> d]

PyFalse == PyBool(FALSE)
PyTrue  == PyBool(TRUE)

\* bool(x): an empty str, False, None and 0 are falsy
Truthy(x) ==
    CASE x.t = "str"   -> x.v # <<>>
      [] x.t = "bool"  -> x.v
      [] x.t = "none"  -> FALSE
      [] x.t = "int"   -> x.v # 0
      [] x.t = "float" -> x.v[1] # 0
      [] OTHER         -> Len(x.v) > 0

\* isinstance(x, int): bool is a subclass of int
IsInt(x) == x.t \in {"int", "bool"}

NumOf(x) == IF x.t = "int" THEN x.v ELSE IF x.v THEN 1 ELSE 0

\* x == y on keys: False == 0 and True == 1, a str equals only the same str
PyEq(x, y) ==
    IF IsInt(x) /\ IsInt(y) THEN NumOf(x) = NumOf(y)
    ELSE IF x.t = y.t THEN x.v = y.v
    ELSE FALSE

\* the same value of the same type
SameTyped(x, y) == x.t = y.t /\ x.v = y.v

---------------------------------------------------------------------------
(* The value codec *)

RECURSIVE FloatNorm(_, _)
FloatNorm(m, e) ==
    IF e > 1 /\ m % 10 = 0 THEN FloatNorm(m \div 10, e - 1) ELSE <<m, e>>

UnsignedPart(s) ==
    IF s # <<>> /\ s[1] \in {"-", "+"} THEN SubSeq(s, 2, Len(s)) ELSE s

Negative(s) == s # <<>> /\ s[1] = "-"

\* int(s): an optional sign and decimal digits (the texts of the model hold
\* no blanks and no underscores)
IntOk(s) == AllDigits(UnsignedPart(s))

IntVal(s) ==
    IF Negative(s) THEN 0 - DigitsVal(UnsignedPart(s))
    ELSE DigitsVal(UnsignedPart(s))

DotAt(s) == CHOOSE i \in 1..Len(s) : s[i] = "."

\* float(s) for a text with a decimal point: [sign] digits* . digits*, a digit
\* on one side at least (the texts of the model hold no exponent)
FloatOk(s) ==
    LET u == UnsignedPart(s) IN
    /\ Count(u, ".") = 1
    /\ Len(u) > 1
    /\ \A i \in 1..Len(u) : u[i] = "." \/ IsDigit(u[i])

FloatVal(s) ==
    LET u    == UnsignedPart(s)
        d    == DotAt(u)
        ip   == SubSeq(u, 1, d - 1)
        fp   == SubSeq(u, d + 1, Len(u))
        e    == IF fp = <<>> THEN 1 ELSE Len(fp)
        frac == IF fp = <<>> THEN 0 ELSE DigitsVal(fp)
        m    == DigitsVal(ip) * Pow10(e) + frac
        n    == FloatNorm(m, e)
    IN  PyFloat(IF Negative(s) THEN 0 - n[1] ELSE n[1], n[2])

\* the try block of __eval: float(val) when val holds a '.', int(val)
\* otherwise; ok is FALSE when it raises ValueError
TryNumber(s) ==
    IF Count(s, ".") > 0
    THEN IF FloatOk(s) THEN [ok |-> TRUE, val |-> FloatVal(s)]
         ELSE [ok |-> FALSE, val |-> PyNone]
    ELSE IF IntOk(s) THEN [ok |-> TRUE, val |-> PyInt(IntVal(s))]
         ELSE [ok |-> FALSE, val |-> PyNone]

\* mxdict.__eval with casting as given.  val is a str, or False when the
\* attribute is missing (meta.value), and False has no count().
eval(val, casting) ==
    IF ~casting THEN [exc |-> "", val |-> val]
    ELSE IF val.t # "str" THEN [exc |-> "AttributeError", val |-> PyNone]
    ELSE LET n == TryNumber(val.v) IN
         IF n.ok THEN [exc |-> "", val |-> n.val]
         ELSE IF val.v = T_true THEN [exc |-> "", val |-> PyTrue]
         ELSE IF val.v = T_false THEN [exc |-> "", val |-> PyFalse]
         ELSE [exc |-> "", val |-> val]

\* exdict.__eval
ex_eval(val) ==
    LET n == TryNumber(val.v) IN
    IF n.ok THEN n.val
    ELSE IF val.v = T_True THEN PyTrue
    ELSE IF val.v = T_False THEN PyFalse
    ELSE val

\* str(x), as the serializers render a scalar
str(x) ==
    CASE x.t = "str"   -> x.v
      [] x.t = "int"   -> IF x.v < 0 THEN <<"-">> \o NatText(0 - x.v)
                          ELSE NatText(x.v)
      [] x.t = "float" ->
            LET m == x.v[1]
                e == x.v[2]
            IN  (IF m < 0 THEN <<"-">> ELSE <<>>)
                \o NatText(Abs(m) \div Pow10(e)) \o <<".">>
                \o ZeroPad(NatText(Abs(m) % Pow10(e)), e)
      [] x.t = "bool"  -> IF x.v THEN T_True ELSE T_False
      [] x.t = "none"  -> T_None

---------------------------------------------------------------------------
(* dict: entries in insertion order *)

HasKey(d, k) == \E i \in 1..Len(d) : PyEq(d[i].k, k)

IndexOf(d, k) == CHOOSE i \in 1..Len(d) : PyEq(d[i].k, k)

GetItem(d, k) == d[IndexOf(d, k)].v

\* d[k] = v: an equal key keeps its place (and the key object first stored)
SetItem(d, k, v) ==
    IF HasKey(d, k) THEN [d EXCEPT ![IndexOf(d, k)].v = v]
    ELSE Append(d, [k |-> k, v |-> v])

K_meta     == PyStr(T_meta)
K_template == PyStr(T_template)

\* the largest int key held, -1 when there is none
MaxIntKey(d) ==
    LET ks == {d[i].k.v : i \in {j \in 1..Len(d) : d[j].k.t = "int"}} IN
    IF ks = {} THEN -1 ELSE CHOOSE m \in ks : \A n \in ks : n <= m

---------------------------------------------------------------------------
(* class meta: the attributes of one element *)

meta_name(a) == IF "name" \in DOMAIN a THEN PyStr(a["name"]) ELSE PyFalse

meta_value(a) == IF "value" \in DOMAIN a THEN PyStr(a["value"]) ELSE PyFalse

meta_template(a) ==
    IF "template" \in DOMAIN a THEN PyStr(a["template"]) ELSE PyFalse

meta_id(a) == IF "_id" \in DOMAIN a THEN PyStr(a["_id"]) ELSE PyFalse

meta_cls(a) ==
    /\ "name" \in DOMAIN a
    /\ \/ StartsWith(a["name"], T_Gc)
       \/ StartsWith(a["name"], T_Tk)
       \/ Cardinality(DOMAIN a) > 1

meta_lst(a) == Cardinality(DOMAIN a) = 1

---------------------------------------------------------------------------
(* Elements *)

Element(tag, attrib, kids) == [tag |-> tag, attrib |-> attrib, kids |-> kids]

NoAttrib == [x \in {} |-> <<>>]

---------------------------------------------------------------------------
(* The parser: mxdict.__to_dict *)

\* the key of a child that has children (lines 136-141)
nested_key(parent, node, dct, use_id) ==
    IF Truthy(meta_id(node)) /\ use_id THEN meta_id(node)
    ELSE IF Truthy(meta_template(parent)) \/ meta_cls(parent)
         THEN meta_name(node)
         ELSE PyInt(Len(dct) - 1)

\* the key and the undecoded value of a childless child (lines 146-157)
leaf_slot(parent, node, dct) ==
    IF meta_lst(node)
    THEN [key |-> meta_name(node), raw |-> PyNone, decode |-> FALSE]
    ELSE IF PyEq(meta_name(node), meta_name(parent)) /\ meta_lst(parent)
         THEN [key |-> PyInt(Len(dct) - 1), raw |-> meta_value(node),
               decode |-> TRUE]
         ELSE [key |-> meta_name(node), raw |-> meta_value(node),
               decode |-> TRUE]

\* one insertion, as the history records it
Insertion(parent, node, nested, key, dct, sub) ==
    [parent |-> parent, node |-> node, nested |-> nested, key |-> key,
     n |-> Len(dct), fresh |-> ~HasKey(dct, key), maxint |-> MaxIntKey(dct),
     sub |-> sub]

RECURSIVE to_dict(_, _, _, _)
RECURSIVE to_dict_kids(_, _, _, _, _)

\* __to_dict(tree, dct): [d: dct as left behind, exc: the exception raised
\* ("" for none), log: the insertions made]
to_dict(tree, dct, casting, use_id) ==
    LET parent == tree.attrib
        d0 == IF Truthy(meta_template(parent))
              THEN SetItem(dct, K_template, meta_template(parent))
              ELSE SetItem(dct, K_meta, PyAttrib(parent))
    IN  to_dict_kids(tree, 1, [d |-> d0, exc |-> "", log |-> <<>>],
                     casting, use_id)

\* the loop "for nd in tree", from child i on
to_dict_kids(tree, i, acc, casting, use_id) ==
    IF i > Len(tree.kids) \/ acc.exc # "" THEN acc
    ELSE
      LET nd     == tree.kids[i]
          node   == nd.attrib
          parent == tree.attrib
          dct    == acc.d
      IN
      IF Len(nd.kids) > 0
      THEN
        LET key == nested_key(parent, node, dct, use_id)
            sub == to_dict(nd, <<>>, casting, use_id)
        IN  IF sub.exc # ""
            THEN [acc EXCEPT !.exc = sub.exc, !.log = acc.log \o sub.log]
            ELSE to_dict_kids(tree, i + 1,
                   [d   |-> SetItem(dct, key, PyMx(sub.d)),
                    exc |-> "",
                    log |-> acc.log
                            \o <<Insertion(parent, node, TRUE, key, dct, sub.d)>>
                            \o sub.log],
                   casting, use_id)
      ELSE
        LET slot == leaf_slot(parent, node, dct)
            val  == IF slot.decode THEN eval(slot.raw, casting)
                    ELSE [exc |-> "", val |-> slot.raw]
        IN  IF val.exc # ""
            THEN [acc EXCEPT !.exc = val.exc]
            ELSE to_dict_kids(tree, i + 1,
                   [d   |-> SetItem(dct, slot.key, val.val),
                    exc |-> "",
                    log |-> Append(acc.log,
                              Insertion(parent, node, FALSE, slot.key, dct, <<>>))],
                   casting, use_id)

---------------------------------------------------------------------------
(* The serializer: mxdict.__to_tree and to_mxml *)

\* isinstance(x, dict)
IsDict(x) == x.t \in {"dict", "mxdict", "attrib"}

\* ET.tostring writes a str attribute as it is and a dict by its repr, which
\* no operation reads back: the model keeps "{...}" for it.  Any other value
\* (None, a number) makes ET.tostring raise TypeError.
T_repr == <<"{", ".", ".", ".", "}">>

Written(x) == IF x.t = "str" THEN x.v ELSE T_repr

CanWrite(x) == x.t = "str" \/ IsDict(x)

\* a key of the dictionary as an attribute name of the element
RECURSIVE AttrName(_)
AttrName(text) == IF text = <<>> THEN "" ELSE text[1] \o AttrName(Tail(text))

\* cls['meta'].copy() as node.attrib (line 186), for a meta that is itself an
\* mxdict: [late, attrib], late when ET.tostring will refuse it
copied_meta(m) ==
    IF m.t = "attrib" THEN [late |-> FALSE, attrib |-> m.v]
    ELSE [late   |-> \E i \in 1..Len(m.v) :
                        m.v[i].k.t # "str" \/ ~CanWrite(m.v[i].v),
          attrib |-> [n \in {AttrName(m.v[i].k.v) :
                                i \in {j \in 1..Len(m.v) : m.v[j].k.t = "str"}}
                        |-> Written(m.v[CHOOSE i \in 1..Len(m.v) :
                                          /\ m.v[i].k.t = "str"
                                          /\ AttrName(m.v[i].k.v) = n].v)]]

\* the attributes of a scalar entry (lines 190-198): [exc, late, attrib]
scalar_attribs(dct, key, cls) ==
    IF IsInt(key)
    THEN \* dct['meta']['name']
         IF ~HasKey(dct, K_meta)
         THEN [exc |-> "KeyError", late |-> FALSE, attrib |-> <<>>]
         ELSE LET m == GetItem(dct, K_meta) IN
              IF ~IsDict(m)
              THEN [exc |-> "TypeError", late |-> FALSE, attrib |-> <<>>]
              ELSE IF m.t = "attrib"
              THEN IF "name" \notin DOMAIN m.v
                   THEN [exc |-> "KeyError", late |-> FALSE, attrib |-> <<>>]
                   ELSE [exc |-> "", late |-> FALSE,
                         attrib |-> [name |-> m.v["name"], value |-> str(cls)]]
              ELSE IF ~HasKey(m.v, PyStr(T_name))
                   THEN [exc |-> "KeyError", late |-> FALSE, attrib |-> <<>>]
                   ELSE [exc |-> "",
                         late |-> ~CanWrite(GetItem(m.v, PyStr(T_name))),
                         attrib |-> [name |-> Written(GetItem(m.v, PyStr(T_name))),
                                     value |-> str(cls)]]
    ELSE IF cls.t # "none"
         THEN [exc |-> "", late |-> ~CanWrite(key),
               attrib |-> [name |-> Written(key), value |-> str(cls)]]
         ELSE [exc |-> "", late |-> ~CanWrite(key),
               attrib |-> [name |-> Written(key)]]

RECURSIVE to_tree(_, _)
RECURSIVE to_tree_items(_, _, _)

\* __to_tree(dct, tree): [exc: the exception raised ("" for none), late:
\* ET.tostring will raise TypeError on the element, tree]
to_tree(dct, tree) ==
    to_tree_items(dct, 1, [exc |-> "", late |-> FALSE, tree |-> tree])

\* the loop "for key, cls in dct.items()", from entry i on
to_tree_items(dct, i, acc) ==
    IF i > Len(dct) \/ acc.exc # "" THEN acc
    ELSE
      LET key == dct[i].k
          cls == dct[i].v
      IN
      IF PyEq(key, K_meta) \/ PyEq(key, K_template)
      THEN to_tree_items(dct, i + 1, acc)
      ELSE IF cls.t = "mxdict"
      THEN \* node.attrib = cls['meta'].copy()
           IF ~HasKey(cls.v, K_meta) THEN [acc EXCEPT !.exc = "KeyError"]
           ELSE IF ~IsDict(GetItem(cls.v, K_meta))
                THEN [acc EXCEPT !.exc = "AttributeError"]
                ELSE LET a   == copied_meta(GetItem(cls.v, K_meta))
                         sub == to_tree(cls.v, Element("Property", a.attrib, <<>>))
                     IN  IF sub.exc # "" THEN [acc EXCEPT !.exc = sub.exc]
                         ELSE to_tree_items(dct, i + 1,
                                [acc EXCEPT !.tree.kids = Append(@, sub.tree),
                                            !.late = @ \/ a.late \/ sub.late])
      ELSE LET a == scalar_attribs(dct, key, cls) IN
           IF a.exc # "" THEN [acc EXCEPT !.exc = a.exc]
           ELSE to_tree_items(dct, i + 1,
                  [acc EXCEPT !.tree.kids =
                                 Append(@, Element("Property", a.attrib, <<>>)),
                              !.late = @ \/ a.late])

\* ET.tostring(element) of what __to_tree returned: [exc, tree]
tostring(built, late) ==
    [exc  |-> IF built.exc = "" /\ (built.late \/ late) THEN "TypeError"
              ELSE built.exc,
     tree |-> built.tree]

\* to_mxml(): the element written, or the exception
to_mxml(d) ==
    IF HasKey(d, K_template)
    THEN tostring(to_tree(d, Element("Data",
                     [template |-> Written(GetItem(d, K_template))], <<>>)),
                  ~CanWrite(GetItem(d, K_template)))
    ELSE tostring(to_tree(<<[k |-> PyStr(T_faux), v |-> PyMx(d)]>>,
                          Element("Data", [faux |-> T_container], <<>>)),
                  FALSE)

---------------------------------------------------------------------------
(* The helpers: data_keys, data_items, one_liner *)

RECURSIVE data_items(_)
data_items(d) ==
    IF d = <<>> THEN <<>>
    ELSE IF PyEq(d[1].k, K_meta) THEN data_items(Tail(d))
         ELSE <<d[1]>> \o data_items(Tail(d))

data_keys(d) == [i \in 1..Len(data_items(d)) |-> data_items(d)[i].k]

RECURSIVE Join(_, _)
\* sep.join(parts)
Join(parts, sep) ==
    IF parts = <<>> THEN <<>>
    ELSE IF Len(parts) = 1 THEN parts[1]
         ELSE parts[1] \o sep \o Join(Tail(parts), sep)

RECURSIVE traverse(_, _)
traverse(x, sep2) ==
    IF x.t = "mxdict"
    THEN Join([i \in 1..Len(data_items(x.v)) |->
                  traverse(data_items(x.v)[i].v, sep2)], sep2)
    ELSE str(x)

\* one_liner(sep1, sep2): [exc, val]
one_liner(d, sep1, sep2) ==
    IF Len(d) <= 0 THEN [exc |-> "", val |-> PyNone]
    ELSE LET res == [i \in 1..Len(data_items(d)) |->
                        traverse(data_items(d)[i].v, sep2)]
         IN  \* traverse returns a str, so "res[0] is None" is never true
             IF res = <<>> THEN [exc |-> "IndexError", val |-> PyNone]
             ELSE [exc |-> "",
                   val |-> PyStr(Join(res, IF Contains(res[1], sep2)
                                           THEN sep1 ELSE sep2))]

---------------------------------------------------------------------------
(* update and append *)

PyDict(d) == [t |-> "dict", v |-> d]

RECURSIVE update(_, _)
RECURSIVE update_items(_, _, _)

\* self.update(dct) on the entries d; mxdict(ext=val) is update on an empty
\* mxdict
update(d, dct) == update_items(d, dct, 1)

\* the loop "for key, val in dct.items()", from entry i on
update_items(d, dct, i) ==
    IF i > Len(dct) THEN d
    ELSE
      LET key == IF dct[i].k.t = "none" THEN PyInt(Len(d)) ELSE dct[i].k
          val == dct[i].v
      IN  IF IsDict(val) /\ ~PyEq(key, K_meta)
          THEN update_items(SetItem(d, key, PyMx(update(<<>>, val.v))),
                            dct, i + 1)
          ELSE update_items(SetItem(d, key, val), dct, i + 1)

\* 'name' in self['meta'] (line 222): [exc, val]
name_in_meta(d) ==
    LET m == GetItem(d, K_meta) IN
    CASE m.t = "attrib" -> [exc |-> "", val |-> "name" \in DOMAIN m.v]
      [] m.t \in {"dict", "mxdict"} ->
                           [exc |-> "", val |-> HasKey(m.v, PyStr(T_name))]
      [] m.t = "str"    -> [exc |-> "", val |-> Contains(m.v, T_name)]
      [] OTHER          -> [exc |-> "TypeError", val |-> FALSE]

\* append(key, value): [exc, d]
append(d, key, value) ==
    IF HasKey(d, K_meta)
    THEN LET c == name_in_meta(d) IN
         IF c.exc # "" THEN [exc |-> c.exc, d |-> d]
         ELSE IF c.val
              THEN [exc |-> "", d |-> SetItem(d, PyInt(Len(d) - 1), value)]
              ELSE [exc |-> "", d |-> SetItem(d, key, value)]
    ELSE [exc |-> "", d |-> SetItem(d, key, value)]

---------------------------------------------------------------------------
(* parse *)

NoElement == Element("", NoAttrib, <<>>)

\* What parse is handed, or what self.__mxml holds:
\*   none   None
\*   empty  the str ''
\*   text   a str that does not end in 'xml': well formed (wf) with the
\*          element it denotes, or not
\*   path   a str that ends in 'xml': the file exists or not, and holds well
\*          formed markup or not
Input(kind, exists, wf, tree) ==
    [kind |-> kind, exists |-> exists, wf |-> wf, tree |-> tree]

NoText      == Input("none", FALSE, FALSE, NoElement)
EmptyText   == Input("empty", FALSE, FALSE, NoElement)
BadText     == Input("text", FALSE, FALSE, NoElement)
MissingPath == Input("path", FALSE, FALSE, NoElement)
BadFile     == Input("path", TRUE, FALSE, NoElement)
Text(tree)  == Input("text", FALSE, TRUE, tree)
File(tree)  == Input("path", TRUE, TRUE, tree)

\* "if mxml:" (line 92)
GivenText(arg) == arg.kind \notin {"none", "empty"}

\* parse that forgets self.clear()
NotCleared(d) == d

\* self.clear() (line 91)
Cleared(d) == <<>>

RetSelf == [t |-> "self", v |-> 0]

NoOrigin == [valid |-> FALSE, tree |-> NoElement]

\* what parse leaves and returns once __to_dict has run on the element
parse_walk(text, built) ==
    [self |-> built.d, mxml |-> text, exc |-> built.exc,
     val |-> IF built.exc = "" THEN RetSelf ELSE PyNone,
     reported |-> "", log |-> built.log,
     origin |-> IF built.exc = "" THEN [valid |-> TRUE, tree |-> text.tree]
                ELSE NoOrigin]

\* what parse leaves and returns when it gives up with a message
parse_fail(d0, text, msg) ==
    [self |-> d0, mxml |-> text, exc |-> "", val |-> PyNone,
     reported |-> msg, log |-> <<>>, origin |-> NoOrigin]

\* parse(mxml): what it leaves in self, self.__mxml, what it returns or
\* raises and what it prints
parse(d, stored, arg, casting, use_id) ==
    LET d0   == Cleared(d)
        text == IF GivenText(arg) THEN arg ELSE stored
    IN  CASE text.kind = "none" ->
               \* None has no lower()
               [self |-> d0, mxml |-> text, exc |-> "AttributeError",
                val |-> PyNone, reported |-> "", log |-> <<>>,
                origin |-> NoOrigin]
          [] text.kind = "path" /\ ~text.exists ->
               parse_fail(d0, text, "File not found!")
          [] OTHER ->
               \* ET.parse(path) or ET.fromstring(text), then __to_dict
               IF ~text.wf
               THEN parse_fail(d0, text, "Parsing encountered an error!")
               ELSE parse_walk(text, to_dict(text.tree, d0, casting, use_id))

---------------------------------------------------------------------------
(* Documents and arguments the model draws from *)

A_T    == [template |-> <<"T">>]
A_L    == [name |-> <<"L">>]
A_L1   == [name |-> <<"L">>, value |-> <<"1">>]
A_V    == [value |-> T_true]
A_Gc   == [name |-> T_Gc]
A_Id   == ("name" :> <<"A">>) @@ ("_id" :> <<"I">>)
A_Meta == [name |-> T_meta, value |-> <<"x">>]
A_Lk   == [name |-> <<"A">>, value |-> <<"3",".","5","0">>, linked |-> <<"k">>]

RootAttribs == {A_T, A_L, A_L1, A_Gc}

NodeAttribs == {A_L, A_L1, A_V, A_Gc, A_Id, A_Meta, A_Lk}

RootTag(a) == IF "template" \in DOMAIN a THEN "Data" ELSE "Property"

RECURSIVE Forests(_)
\* the sequences of Property elements that hold m elements in all
Forests(m) ==
    IF m = 0 THEN {<<>>}
    ELSE UNION {
           {<<Element("Property", a, g)>> \o f :
               a \in NodeAttribs, g \in Forests(k - 1), f \in Forests(m - k)}
           : k \in 1..m}

Documents ==
    UNION {{Element(RootTag(a), a, f) : a \in RootAttribs, f \in Forests(n - 1)}
           : n \in 1..MaxNodes}

ListDoc == Element("Property", A_L, <<Element("Property", A_L1, <<>>)>>)

ParseArgs == {NoText, EmptyText, BadText, MissingPath, BadFile, File(ListDoc)}

Exts == {<<>>,
         <<[k |-> K_meta, v |-> PyAttrib(A_L)]>>,
         <<[k |-> K_meta, v |-> PyAttrib(A_L1)]>>,
         <<[k |-> K_meta, v |-> PyAttrib(A_V)]>>,
         <<[k |-> K_template, v |-> PyStr(<<"T">>)]>>}

UpdateArgs == {<<[k |-> PyNone, v |-> PyStr(<<"a">>)]>>,
               <<[k |-> PyStr(<<"S">>), v |-> PyNone]>>,
               <<[k |-> PyNone,
                  v |-> PyDict(<<[k |-> K_meta, v |-> PyAttrib(A_L)],
                                 [k |-> PyNone, v |-> PyStr(<<"a">>)]>>)]>>}

AppendKeys == {PyNone, PyStr(<<"k">>)}

AppendValues == {PyStr(<<"v">>)}

RawTexts == {<<"3">>, <<"3", ".", "5">>, T_true, T_false, T_True, T_False,
             T_hello, <<"0", "3">>, <<"3", ".", "5", "0">>, <<"-", "3">>,
             <<"3", ".">>, <<".", "5">>, <<"1", ".", "2", ".", "3">>, <<>>,
             <<"+", "7">>, <<"0", ".", "2", "5">>}

---------------------------------------------------------------------------
(* The state machine *)

NoCodec == [dialect |-> "", raw |-> <<>>, stage |-> 0,
            first |-> PyNone, text |-> <<>>, second |-> PyNone]

\* before: len(self) when the call was made
Called(op, args, before) == [op |-> op, args |-> args, before |-> before]

Returned(exc, val) == [exc |-> exc, val |-> val]

\* mxdict(mxml, casting, use_id, ext)
Constructed(m, c, u, ext) ==
    /\ mxml = m
    /\ cast = c
    /\ useid = u
    /\ self = update(<<>>, ext)
    /\ call = Called("__init__", <<>>, 0)
    /\ ret = Returned("", PyNone)
    /\ reported = ""
    /\ origin = NoOrigin
    /\ log = <<>>

Init ==
    /\ \E m \in {Text(t) : t \in Documents}, c \in BOOLEAN, u \in BOOLEAN :
          Constructed(m, c, u, <<>>)
    /\ codec = NoCodec

InitDict ==
    /\ \E m \in {NoText, Text(ListDoc)}, ext \in Exts :
          Constructed(m, FALSE, FALSE, ext)
    /\ codec = NoCodec

InitEval ==
    /\ Constructed(NoText, TRUE, FALSE, <<>>)
    /\ \E d \in {"mxdict", "exdict"}, r \in RawTexts :
          codec = [NoCodec EXCEPT !.dialect = d, !.raw = r]

Parse(arg) ==
    \E r \in {parse(self, mxml, arg, cast, useid)} :
    /\ self' = r.self
    /\ mxml' = r.mxml
    /\ call' = Called("parse", <<arg>>, Len(self))
    /\ ret' = Returned(r.exc, r.val)
    /\ reported' = r.reported
    /\ origin' = r.origin
    /\ log' = r.log
    /\ UNCHANGED <<cast, useid, codec>>

ToMxml ==
    \E r \in {to_mxml(self)} :
    /\ call' = Called("to_mxml", <<>>, Len(self))
    /\ ret' = Returned(r.exc, [t |-> "element", v |-> r.tree])
    /\ reported' = ""
    /\ UNCHANGED <<self, mxml, cast, useid, origin, log, codec>>

DataKeys ==
    /\ call' = Called("data_keys", <<>>, Len(self))
    /\ ret' = Returned("", [t |-> "list", v |-> data_keys(self)])
    /\ reported' = ""
    /\ UNCHANGED <<self, mxml, cast, useid, origin, log, codec>>

DataItems ==
    /\ call' = Called("data_items", <<>>, Len(self))
    /\ ret' = Returned("", [t |-> "list", v |-> data_items(self)])
    /\ reported' = ""
    /\ UNCHANGED <<self, mxml, cast, useid, origin, log, codec>>

OneLiner ==
    \E r \in {one_liner(self, <<";">>, <<",">>)} :
    /\ call' = Called("one_liner", <<>>, Len(self))
    /\ ret' = Returned(r.exc, r.val)
    /\ reported' = ""
    /\ UNCHANGED <<self, mxml, cast, useid, origin, log, codec>>

Update(dct) ==
    /\ Len(self) < MaxLen
    /\ self' = update(self, dct)
    /\ call' = Called("update", <<dct>>, Len(self))
    /\ ret' = Returned("", PyNone)
    /\ reported' = ""
    /\ origin' = NoOrigin
    /\ UNCHANGED <<mxml, cast, useid, log, codec>>

AppendItem(key, value) ==
    \E r \in {append(self, key, value)} :
    /\ Len(self) < MaxLen
    /\ self' = r.d
    /\ call' = Called("append", <<key, value>>, Len(self))
    /\ ret' = Returned(r.exc, PyNone)
    /\ reported' = ""
    /\ origin' = NoOrigin
    /\ UNCHANGED <<mxml, cast, useid, log, codec>>

DecodeWith(dialect, text) ==
    IF dialect = "mxdict" THEN eval(PyStr(text), TRUE).val
    ELSE ex_eval(PyStr(text))

Decode ==
    /\ codec.stage = 0
    /\ codec' = [codec EXCEPT !.stage = 1,
                              !.first = DecodeWith(codec.dialect, codec.raw)]
    /\ UNCHANGED <<self, mxml, cast, useid, call, ret, reported, origin, log>>

Encode ==
    /\ codec.stage = 1
    /\ codec' = [codec EXCEPT !.stage = 2, !.text = str(codec.first)]
    /\ UNCHANGED <<self, mxml, cast, useid, call, ret, reported, origin, log>>

Redecode ==
    /\ codec.stage = 2
    /\ codec' = [codec EXCEPT !.stage = 3,
                              !.second = DecodeWith(codec.dialect, codec.text)]
    /\ UNCHANGED <<self, mxml, cast, useid, call, ret, reported, origin, log>>

Next ==
    \/ \E arg \in ParseArgs : Parse(arg)
    \/ ToMxml
    \/ DataKeys
    \/ DataItems
    \/ OneLiner

NextDict ==
    \/ \E arg \in ParseArgs : Parse(arg)
    \/ \E dct \in UpdateArgs : Update(dct)
    \/ \E key \in AppendKeys, value \in AppendValues : AppendItem(key, value)
    \/ ToMxml
    \/ DataKeys
    \/ DataItems
    \/ OneLiner

NextEval == Decode \/ Encode \/ Redecode

Spec == Init /\ [][Next]_vars

SpecDict == InitDict /\ [][NextDict]_vars

SpecEval == InitEval /\ [][NextEval]_vars

---------------------------------------------------------------------------
(* What the claims read *)

\* the entries that are neither the meta nor the template slot
DataSlots(d) ==
    SelectSeq(d, LAMBDA e : ~PyEq(e.k, K_meta) /\ ~PyEq(e.k, K_template))

HasReserved(d) == HasKey(d, K_meta) \/ HasKey(d, K_template)

\* the meta of d is a lone name attribute
LoneNameMeta(d) ==
    /\ HasKey(d, K_meta)
    /\ GetItem(d, K_meta).t = "attrib"
    /\ DOMAIN GetItem(d, K_meta).v = {"name"}

RECURSIVE SameMarkup(_, _, _)
\* the same attribute names on every element, the same nesting and the same
\* order of children; with exact, the same attribute values too
SameMarkup(x, y, exact) ==
    /\ DOMAIN x.attrib = DOMAIN y.attrib
    /\ exact => x.attrib = y.attrib
    /\ Len(x.kids) = Len(y.kids)
    /\ \A i \in 1..Len(x.kids) : SameMarkup(x.kids[i], y.kids[i], exact)

\* C1: for a document whose root carries a template, to_mxml of the entries
\* parse built gives back the document: it raises nothing, and every element
\* has the same attribute names, nesting and child order (and, with casting
\* off, the same attribute values), with casting on or off.
C1_RoundTrip ==
    (call.op = "to_mxml" /\ origin.valid
       /\ "template" \in DOMAIN origin.tree.attrib)
    => /\ ret.exc = ""
       /\ SameMarkup(ret.val.v, origin.tree, ~cast)

\* C2: on a non-empty tree neither data_keys() nor data_items() returns the
\* meta slot or the template slot, and they return len(tree) - 1 items when
\* one of the two slots is held and len(tree) items otherwise.
C2_MetaExclusion ==
    (call.op \in {"data_keys", "data_items"} /\ Len(self) > 0)
    => LET keys == IF call.op = "data_keys" THEN ret.val.v
                   ELSE [i \in 1..Len(ret.val.v) |-> ret.val.v[i].k]
       IN  /\ \A i \in 1..Len(keys) :
                ~PyEq(keys[i], K_meta) /\ ~PyEq(keys[i], K_template)
           /\ Len(keys) = Len(self) - (IF HasReserved(self) THEN 1 ELSE 0)

\* a section of childless children that carry only a value, or that all carry
\* the same name and a value
ListSection(t) ==
    /\ \A i \in 1..Len(t.kids) : t.kids[i].kids = <<>>
    /\ \/ \A i \in 1..Len(t.kids) : DOMAIN t.kids[i].attrib = {"value"}
       \/ \A i \in 1..Len(t.kids) :
             /\ DOMAIN t.kids[i].attrib = {"name", "value"}
             /\ t.kids[i].attrib["name"] = t.kids[1].attrib["name"]

\* C3: the tree the parser builds for a section of n childless children
\* sharing one name and carrying only a value has exactly the data keys
\* 0, 1, ..., n-1 in that order: no name key, and no child overwritten.
C3_ListKeys ==
    (call.op = "parse" /\ origin.valid /\ ListSection(origin.tree))
    => /\ Len(DataSlots(self)) = Len(origin.tree.kids)
       /\ \A i \in 1..Len(DataSlots(self)) :
             SameTyped(DataSlots(self)[i].k, PyInt(i - 1))

\* C4: one_liner() returns None, and raises nothing, on a tree with no data
\* slot (empty, or holding only its meta or template slot) and on a tree
\* whose single data slot holds None.
C4_FlattenEmpty ==
    (call.op = "one_liner"
       /\ \/ DataSlots(self) = <<>>
          \/ Len(DataSlots(self)) = 1 /\ DataSlots(self)[1].v.t = "none")
    => ret = Returned("", PyNone)

\* the text parse worked on cannot be read: it is not well-formed markup, or
\* it is a path to a file that does not exist
Unreadable(m) ==
    \/ m.kind \in {"text", "empty"} /\ ~m.wf
    \/ m.kind = "path" /\ (~m.exists \/ ~m.wf)

\* C5 as claimed: when parse() is given text that cannot be parsed as markup
\* (the empty text included), or a path ending in 'xml' that does not exist,
\* the call prints the failure, returns None and leaves the mxdict with no
\* slot, whatever it held before.
C5_GivenUnreadable ==
    (call.op = "parse" /\ Unreadable(call.args[1]))
    => /\ self = <<>>
       /\ ret = Returned("", PyNone)
       /\ reported # ""

\* C5 as amended: when the text parse() works on (its argument, or the stored
\* text when the argument is None or empty) cannot be parsed as markup, or is
\* a path ending in 'xml' that does not exist, the call prints the failure,
\* returns None and leaves the mxdict with no slot, whatever it held before.
C5_FailedParseEmpties ==
    (call.op = "parse" /\ Unreadable(mxml))
    => /\ self = <<>>
       /\ ret = Returned("", PyNone)
       /\ reported # ""

\* C5 witness: a parse of unreadable text on an mxdict that held slots
C5_Witness ==
    /\ call.op = "parse"
    /\ Unreadable(mxml)
    /\ call.before > 0
    /\ self = <<>>

\* the texts the claim names, with the dialect's own true and false
Representative(dialect) ==
    {<<"3">>, <<"3", ".", "5">>, T_hello}
    \cup (IF dialect = "mxdict" THEN {T_true, T_false} ELSE {T_True, T_False})

\* C6: for "3", "3.5", the dialect's true and false literals and "hello",
\* decoding with casting on, rendering with str() and decoding again gives
\* the same typed value as the first decode, in mxdict as in exdict.
C6_CastingIdempotent ==
    (codec.stage = 3 /\ codec.raw \in Representative(codec.dialect))
    => SameTyped(codec.second, codec.first)

\* C7: append(key, value) stores the value under the next positional key
\* when the meta is a lone name; in every other case it stores it under the
\* key supplied, and without a key it inserts nothing.
C7_Append ==
    [][call'.op = "append"
       => LET key   == call'.args[1]
              value == call'.args[2]
          IN  IF LoneNameMeta(self)
              THEN self' = SetItem(self, PyInt(Len(self) - 1), value)
              ELSE IF key.t # "none"
                   THEN self' = SetItem(self, key, value)
                   ELSE self' = self]_vars

\* the key the claim gives a child that has children
ClaimedNestedKey(e, use_id) ==
    IF "_id" \in DOMAIN e.node /\ use_id THEN PyStr(e.node["_id"])
    ELSE IF "template" \in DOMAIN e.parent \/ DOMAIN e.parent # {"name"}
         THEN IF "name" \in DOMAIN e.node THEN PyStr(e.node["name"])
              ELSE PyInt(e.n - 1)
         ELSE PyInt(e.n - 1)

\* C8: a child that has children is stored under its _id when it has one and
\* use_id is on; otherwise, under a template root or a parent whose
\* attributes are not a lone name, under its name, or under the number of
\* data slots when it has no name; otherwise under the number of data slots.
C8_NestedKey ==
    call.op = "parse"
    => \A i \in 1..Len(log) :
          log[i].nested
          => SameTyped(log[i].key, ClaimedNestedKey(log[i], useid))

\* the key is absent from d and above every positional key of d
FreshIn(d, key) == ~HasKey(d, key) /\ key.v > MaxIntKey(d)

\* C9: every positional key, given by the parser, by append() on a list
\* section or by update() for a None key, is absent from the tree at that
\* moment and greater than every positional key the tree holds.
C9_PositionalFresh ==
    [][/\ call'.op = "parse"
          => \A i \in 1..Len(log') :
                log'[i].key.t = "int"
                => log'[i].fresh /\ log'[i].key.v > log'[i].maxint
       /\ (call'.op = "append" /\ HasKey(self, K_meta)
             /\ name_in_meta(self).exc = "" /\ name_in_meta(self).val)
          => FreshIn(self, PyInt(Len(self) - 1))
       /\ (call'.op = "update" /\ call'.args[1][1].k.t = "none")
          => FreshIn(self, PyInt(Len(self)))]_vars

\* d holds exactly one of the two reserved slots, as its first entry, and it
\* holds the attributes a of the element d was built from
Marked(d, a) ==
    /\ HasKey(d, K_template) # HasKey(d, K_meta)
    /\ d[1].k \in {K_template, K_meta}
    /\ IF Truthy(meta_template(a))
       THEN d[1] = [k |-> K_template, v |-> meta_template(a)]
       ELSE d[1] = [k |-> K_meta, v |-> PyAttrib(a)]

\* C10: after a successful parse the root tree and every nested tree holds
\* exactly one of 'template' and 'meta', written first, and it holds the
\* element's own attributes, whatever the children are called.
C10_TemplateOrMeta ==
    (call.op = "parse" /\ origin.valid)
    => /\ Marked(self, origin.tree.attrib)
       /\ \A i \in 1..Len(log) :
             log[i].nested => Marked(log[i].sub, log[i].node)

====
